---------------------------- MODULE Spec2Model ----------------------------
(***************************************************************************)
(* Model of the table-entity codec of the storage service:                 *)
(* flattenEntity in internal/services/storage/                             *)
(* storage_table_entity_resource.go, which turns the raw entity returned   *)
(* by the table data plane into the flattened map kept in state (Spec,     *)
(* FairSpec, and NumberSpec for entities of large whole numbers); of the   *)
(* handlers of the entity resource in the same file (HandlerSpec); of the  *)
(* data-plane client constructors of package client (ClientSpec); and of   *)
(* the ACL conversions of the table resource (AclSpec).  Each              *)
(* specification leaves the variables of the others at rest.               *)
(*                                                                         *)
(* Go strings that the code takes apart (the map keys) are sequences of    *)
(* tokens: "a@odata.type" is <<"a", "@odata.type">> and "odata.etag" is    *)
(* <<"odata.", "etag">>, so that strings.HasPrefix, strings.HasSuffix and  *)
(* k + "@odata.type" are computed on the key and not assumed.  Go values   *)
(* of type interface{} are records tagged with their dynamic type.         *)
(* A float64 is the decimal (-1)^neg * (hi * 10^9 + ip + fp/1000);         *)
(* every float the model draws is printed by Go with at most three         *)
(* fractional digits; one of them is large enough to get an exponent.      *)
(***************************************************************************)
EXTENDS Integers, Sequences, FiniteSets, TLC

VARIABLES
    raw,      \* the caller's map as it was when flattenEntity was called
    entity,   \* the caller's map (Go maps are shared with the callee)
    result,   \* flattenEntity's local `result`
    todo,     \* keys `for k, v := range entity` has not visited yet
    warned,   \* the [WARN] lines written with log.Printf, as <<key, what>>
    pass,     \* how many times flattenEntity has been called on this data
    pc        \* "call", "range" or "done"

\* the codec's variables
flattenVars == <<raw, entity, result, todo, warned, pass, pc>>

VARIABLES
    storageClient, \* the storage Client: [authorizerForAad]
    account,       \* a ...DataPlaneClient's parameter `account`; in a handler,
                   \* the pointer FindAccount returned
    ctor,          \* the ...DataPlaneClient constructor that was called
    operation,     \* its parameter `operation`
    baseUri,       \* its local `baseUri` (a pointer to a string)
    authorizer,    \* what SetAuthorizer was called with on the new client
    keyCalls,      \* how many times account.AccountKey was called
    ret,           \* what the constructor returned: [client, err]
    cpc            \* the constructor's position

\* the client constructors' variables
clientVars == <<ctor, operation, baseUri, authorizer, keyCalls, ret, cpc>>

VARIABLES
    handler,  \* the handler of the entity resource that was invoked
    d,        \* the ResourceData: [Id, IsNewResource, Get, Set]
    calls,    \* the calls the handlers made so far, in order
    err,      \* what the invoked handler returned
    hpc       \* the handlers' position

\* the entity handlers' variables
handlerVars == <<handler, d, calls, err, hpc>>

\* what the client constructors and the handlers share
sharedVars == <<storageClient, account>>

VARIABLES
    aclsRaw,    \* the "acl" set of a table, as d.Get("acl").(*Set).List()
    acls,       \* the results of expandStorageTableACLs
    aclAttr,    \* what flattenStorageTableACLs returned, set as "acl"
    apc         \* "expand", "expanded", "panic" or "done"

\* the variables of the table's ACL conversions
aclVars == <<aclsRaw, acls, aclAttr, apc>>

vars == <<flattenVars, sharedVars, clientVars, handlerVars, aclVars>>

---------------------------------------------------------------------------
(* Bounds of the model. *)

\* at most this many keys in a generated raw entity
MaxKeys == 3

\* flattenEntity is applied at most this many times in a row
MaxPasses == 2

---------------------------------------------------------------------------
(* Go values. *)

Bool(b) == [kind |-> "bool", b |-> b]

Str(s) == [kind |-> "string", s |-> s]

\* a float64 of magnitude hi * 10^9 + ip + fp/1000, with ip < 10^9 and
\* hi < 10 (integers of the model checker end at 2^31 - 1)
BigFloat(neg, hi, ip, fp) ==
    [kind |-> "float64", neg |-> neg, hi |-> hi, ip |-> ip, fp |-> fp]

Float(neg, ip, fp) == BigFloat(neg, 0, ip, fp)

\* a decoded JSON null: a value that is neither bool, float64 nor string
Nil == [kind |-> "nil"]

\* a decoded empty JSON array, []interface{}{}
EmptySlice == [kind |-> "slice"]

---------------------------------------------------------------------------
(* Keys. *)

odataPrefix == "odata."

odataTypeSuffix == "@odata.type"

HasPrefix(k, p) == Len(k) >= 1 /\ k[1] = p

HasSuffix(k, s) == Len(k) >= 1 /\ k[Len(k)] = s

\* k + "@odata.type"
AnnotationKey(k) == Append(k, odataTypeSuffix)

PartitionKey == <<"PartitionKey">>

RowKey == <<"RowKey">>

Timestamp == <<"Timestamp">>

ReservedKeys == {PartitionKey, RowKey, Timestamp}

---------------------------------------------------------------------------
(* Go maps: functions whose domain is the set of keys present. *)

EmptyMap == [k \in {} |-> Nil]

MapDelete(m, k) == [x \in (DOMAIN m) \ {k} |-> m[x]]

MapSet(m, k, v) == [x \in (DOMAIN m) \cup {k} |-> IF x = k THEN v ELSE m[x]]

---------------------------------------------------------------------------
(* package fmt *)

Pad3(n) ==
    IF n < 10 THEN "00" \o ToString(n)
    ELSE IF n < 100 THEN "0" \o ToString(n)
    ELSE ToString(n)

\* the fractional digits of fp/1000 without trailing zeros
ShortFrac(fp) ==
    IF fp % 100 = 0 THEN ToString(fp \div 100)
    ELSE IF fp % 10 = 0 THEN
        (IF fp < 100 THEN "0" ELSE "") \o ToString(fp \div 10)
    ELSE Pad3(fp)

SignText(f) == IF f.neg THEN "-" ELSE ""

RECURSIVE Pow10(_)
Pow10(n) == IF n = 0 THEN 1 ELSE 10 * Pow10(n - 1)

\* the decimal exponent of ip >= 1: the number of its digits, less one
RECURSIVE Exp10(_)
Exp10(ip) == IF ip < 10 THEN 0 ELSE 1 + Exp10(ip \div 10)

\* n written with w digits, zero-padded on the left
RECURSIVE PadTo(_, _)
PadTo(n, w) ==
    IF w = 0 THEN "" ELSE PadTo(n \div 10, w - 1) \o ToString(n % 10)

\* n written with w digits, less its trailing zeros
RECURSIVE ShortDigits(_, _)
ShortDigits(n, w) ==
    IF n = 0 THEN ""
    ELSE IF n % 10 = 0 THEN ShortDigits(n \div 10, w - 1)
    ELSE PadTo(n, w)

\* strconv's %e with the shortest digits: d.ddde+XX
FormatFloatE(f) ==
    LET e == IF f.hi > 0 THEN 9 ELSE Exp10(f.ip)
        lead == IF f.hi > 0 THEN f.hi ELSE f.ip \div Pow10(e)
        rest == IF f.hi > 0 THEN f.ip ELSE f.ip % Pow10(e)
        digits == IF f.fp = 0 THEN ShortDigits(rest, e)
                  ELSE PadTo(rest, e) \o ShortFrac(f.fp)
    IN  SignText(f) \o ToString(lead)
            \o (IF digits = "" THEN "" ELSE "." \o digits)
            \o "e+" \o PadTo(e, 2)

\* %v of a float64 is %g with the shortest precision that reads back:
\* %e when the decimal exponent is 6 or more (21 only in encoding/json)
FormatFloatG(f) ==
    IF f.hi > 0 \/ f.ip >= 1000000 THEN FormatFloatE(f)
    ELSE SignText(f) \o ToString(f.ip)
            \o (IF f.fp = 0 THEN "" ELSE "." \o ShortFrac(f.fp))

\* %f of a float64: six fractional digits
FormatFloatF(f) ==
    SignText(f)
        \o (IF f.hi > 0 THEN ToString(f.hi) \o PadTo(f.ip, 9) ELSE ToString(f.ip))
        \o "." \o Pad3(f.fp) \o "000"

BoolText(b) == IF b THEN "true" ELSE "false"

\* fmt.Sprint(v)
Sprint(v) ==
    CASE v.kind = "bool" -> BoolText(v.b)
      [] v.kind = "float64" -> FormatFloatG(v)
      [] v.kind = "string" -> v.s
      [] v.kind = "slice" -> "[]"
      [] OTHER -> "<nil>"

\* fmt.Sprintf("%f", v): a wrong verb prints %!f(type=value)
SprintfF(v) ==
    CASE v.kind = "float64" -> FormatFloatF(v)
      [] v.kind = "bool" -> "%!f(bool=" \o BoolText(v.b) \o ")"
      [] v.kind = "string" -> "%!f(string=" \o v.s \o ")"
      [] v.kind = "slice" -> "[]"
      [] OTHER -> "%!f(<nil>)"

\* an int64 of magnitude hi * 10^9 + lo, negative when neg
Int64(neg, hi, lo) == [neg |-> neg, hi |-> hi, lo |-> lo]

\* fmt.Sprintf("%d", i) of an int64
SprintfD(i) ==
    (IF i.neg THEN "-" ELSE "")
        \o (IF i.hi > 0 THEN ToString(i.hi) \o PadTo(i.lo, 9) ELSE ToString(i.lo))

\* int64(f64): truncation towards zero
Int64Of(f) == Int64(f.neg /\ (f.hi > 0 \/ f.ip > 0), f.hi, f.ip)

\* float64(i)
Float64Of(i) == BigFloat(i.neg, i.hi, i.lo, 0)

\* == on two float64: -0 equals +0
FloatEq(f, g) ==
    /\ f.hi = g.hi
    /\ f.ip = g.ip
    /\ f.fp = g.fp
    /\ (f.neg = g.neg \/ (f.hi = 0 /\ f.ip = 0 /\ f.fp = 0))

---------------------------------------------------------------------------
(* flattenEntity, one part of its body per definition. *)

\* faulty variant: the delete of "Timestamp" is forgotten
DeleteReserved_KeepTimestamp(e) ==
    MapDelete(MapDelete(e, PartitionKey), RowKey)

\* delete(entity, "PartitionKey"); delete(entity, "RowKey");
\* delete(entity, "Timestamp")
DeleteReserved(e) ==
    MapDelete(MapDelete(MapDelete(e, PartitionKey), RowKey), Timestamp)

\* faulty variant: only the "odata." prefix is skipped
IsODataKey_PrefixOnly(k) == HasPrefix(k, odataPrefix)

\* strings.HasPrefix(k, "odata.") || strings.HasSuffix(k, "@odata.type")
IsODataKey(k) == HasPrefix(k, odataPrefix) \/ HasSuffix(k, odataTypeSuffix)

\* the cases of `switch dtype` that do not `continue`
KnownEdmTypes ==
    {Str("Edm.Boolean"), Str("Edm.Double"), Str("Edm.Int32"),
     Str("Edm.Int64"), Str("Edm.String")}

\* case "Edm.Boolean": result[k] = fmt.Sprint(v)
EdmBooleanValue(v) == Str(Sprint(v))

\* case "Edm.Double": result[k] = fmt.Sprintf("%f", v)
EdmDoubleValue(v) == Str(SprintfF(v))

\* faulty variant: integers formatted with %f like the doubles
EdmIntValue_Fixed(v) == Str(SprintfF(v))

\* case "Edm.Int32", "Edm.Int64": result[k] = fmt.Sprint(v)
EdmIntValue(v) == Str(Sprint(v))

\* case "Edm.String": result[k] = v
EdmStringValue(v) == v

\* result[k] in the branch where entity[k+"@odata.type"] is present
ExplicitValue(dtype, v) ==
    CASE dtype = Str("Edm.Boolean") -> EdmBooleanValue(v)
      [] dtype = Str("Edm.Double") -> EdmDoubleValue(v)
      [] dtype \in {Str("Edm.Int32"), Str("Edm.Int64")} -> EdmIntValue(v)
      [] OTHER -> EdmStringValue(v)

\* faulty variant: the default case warns but does not `continue`
FlattenExplicit_NoContinue(res, k, v, dtype) ==
    IF dtype \in KnownEdmTypes
    THEN MapSet(MapSet(res, k, ExplicitValue(dtype, v)),
                AnnotationKey(k), dtype)
    ELSE MapSet(res, AnnotationKey(k), dtype)

\* faulty variant: Edm.Int64 is written back as the inferred Edm.Int32
FlattenExplicit_Reinfer(res, k, v, dtype) ==
    IF dtype \in KnownEdmTypes
    THEN MapSet(MapSet(res, k, ExplicitValue(dtype, v)),
                AnnotationKey(k),
                IF dtype = Str("Edm.Int64") THEN Str("Edm.Int32") ELSE dtype)
    ELSE res

\* the branch `if dtype, ok := entity[k+"@odata.type"]; ok`
FlattenExplicit(res, k, v, dtype) ==
    IF dtype \in KnownEdmTypes
    THEN MapSet(MapSet(res, k, ExplicitValue(dtype, v)),
                AnnotationKey(k), dtype)
    ELSE res

\* faulty variant: the inferred Edm.Boolean annotation is not emitted
FlattenBool_NoAnnotation(res, k, v) == MapSet(res, k, Str(Sprint(v)))

\* case bool
FlattenBool(res, k, v) ==
    MapSet(MapSet(res, k, Str(Sprint(v))),
           AnnotationKey(k), Str("Edm.Boolean"))

\* v == float64(int64(f64))
IsWholeNumber(v) == FloatEq(v, Float64Of(Int64Of(v)))

\* faulty variant: whole numbers are not told from the other floats
FlattenFloat_AlwaysDouble(res, k, v) ==
    MapSet(MapSet(res, k, Str(Sprint(v))),
           AnnotationKey(k), Str("Edm.Double"))

\* case float64
FlattenFloat(res, k, v) ==
    IF IsWholeNumber(v)
    THEN MapSet(MapSet(res, k, Str(SprintfD(Int64Of(v)))),
                AnnotationKey(k), Str("Edm.Int32"))
    ELSE MapSet(MapSet(res, k, Str(Sprint(v))),
                AnnotationKey(k), Str("Edm.Double"))

\* faulty variant: a plain string gets the annotation Edm.String
FlattenString_Annotated(res, k, v) ==
    MapSet(MapSet(res, k, v), AnnotationKey(k), Str("Edm.String"))

\* case string
FlattenString(res, k, v) == MapSet(res, k, v)

\* faulty variant: the default case stringifies the value instead of skipping it
FlattenImplicit_KeepAny(res, k, v) ==
    CASE v.kind = "bool" -> FlattenBool(res, k, v)
      [] v.kind = "float64" -> FlattenFloat(res, k, v)
      [] v.kind = "string" -> FlattenString(res, k, v)
      [] OTHER -> MapSet(res, k, Str(Sprint(v)))

\* the else branch: `switch c := v.(type)`
FlattenImplicit(res, k, v) ==
    CASE v.kind = "bool" -> FlattenBool(res, k, v)
      [] v.kind = "float64" -> FlattenFloat(res, k, v)
      [] v.kind = "string" -> FlattenString(res, k, v)
      [] OTHER -> res

\* faulty variant: only the keys with the "odata." prefix are skipped
FlattenKey_SuffixNotSkipped(e, res, k) ==
    IF HasPrefix(k, odataPrefix) THEN res
    ELSE IF AnnotationKey(k) \in DOMAIN e
         THEN FlattenExplicit(res, k, e[k], e[AnnotationKey(k)])
         ELSE FlattenImplicit(res, k, e[k])

\* one iteration of `for k, v := range entity`: the new `result`
FlattenKey(e, res, k) ==
    IF IsODataKey(k) THEN res
    ELSE IF AnnotationKey(k) \in DOMAIN e
         THEN FlattenExplicit(res, k, e[k], e[AnnotationKey(k)])
         ELSE FlattenImplicit(res, k, e[k])

\* the log.Printf("[WARN] ...") lines of one iteration
FlattenWarnings(e, k) ==
    IF IsODataKey(k) THEN {}
    ELSE IF AnnotationKey(k) \in DOMAIN e
         THEN IF e[AnnotationKey(k)] \in KnownEdmTypes
              THEN {}
              ELSE {<<k, "unexpected @odata.type">>}
         ELSE IF e[k].kind \in {"bool", "float64", "string"}
              THEN {}
              ELSE {<<k, "unexpected type">>}

\* the loop over `keys` in one fixed order
RECURSIVE FlattenOver(_, _, _)
FlattenOver(e, res, keys) ==
    IF keys = {} THEN res
    ELSE LET k == CHOOSE x \in keys : TRUE
         IN  FlattenOver(e, FlattenKey(e, res, k), keys \ {k})

\* flattenEntity(entity) as a function of its argument
flattenEntity(e) ==
    LET kept == DeleteReserved(e)
    IN  FlattenOver(kept, EmptyMap, DOMAIN kept)

---------------------------------------------------------------------------
(* The raw entities flattenEntity is applied to. *)

PropertyKeys == {<<"a">>, <<"b">>}

KeyUniverse ==
    ReservedKeys \cup PropertyKeys
        \cup {AnnotationKey(k) : k \in PropertyKeys}
        \cup {<<odataPrefix, "etag">>, AnnotationKey(Timestamp)}

PropertyValues ==
    {Bool(TRUE), Bool(FALSE),
     Float(FALSE, 3, 0), Float(FALSE, 123, 123), Float(TRUE, 0, 500),
     Float(FALSE, 1000000, 0),
     Str("9007199254740993"), Nil}

TypeNames ==
    KnownEdmTypes \cup {Str("Edm.Unsupported")}

ValuesFor(k) ==
    IF k = PartitionKey THEN {Str("p")}
    ELSE IF k = RowKey THEN {Str("r")}
    ELSE IF k = Timestamp THEN {Str("t"), Bool(TRUE)}
    ELSE IF k = AnnotationKey(Timestamp)
         THEN {Str("Edm.DateTime"), Str("Edm.String")}
    ELSE IF HasPrefix(k, odataPrefix) THEN {Str("W/1")}
    ELSE IF HasSuffix(k, odataTypeSuffix) THEN TypeNames
    ELSE PropertyValues

RECURSIVE MapsOver(_)
MapsOver(D) ==
    IF D = {} THEN {EmptyMap}
    ELSE LET k == CHOOSE x \in D : TRUE
         IN  {MapSet(m, k, v) : m \in MapsOver(D \ {k}), v \in ValuesFor(k)}

GeneratedEntities ==
    UNION {MapsOver(D) :
             D \in {S \in SUBSET KeyUniverse : Cardinality(S) <= MaxKeys}}

\* the entity of the end-to-end scenario
ScenarioEntity ==
    (PartitionKey :> Str("p")) @@ (RowKey :> Str("r"))
        @@ (Timestamp :> Str("t"))
        @@ (<<"count">> :> Float(FALSE, 3, 0))
        @@ (<<"count", odataTypeSuffix>> :> Str("Edm.Int64"))
        @@ (<<"active">> :> Bool(TRUE))
        @@ (<<"name">> :> Str("x"))

RawEntities == GeneratedEntities \cup {ScenarioEntity}

\* JSON numbers around the ends of the signed 32-bit range:
\* 3, 123.123, 2147483647, 2147483648, -2147483648, -2147483649, 3000000000
NumberValues ==
    {Float(FALSE, 3, 0), Float(FALSE, 123, 123),
     BigFloat(FALSE, 2, 147483647, 0), BigFloat(FALSE, 2, 147483648, 0),
     BigFloat(TRUE, 2, 147483648, 0), BigFloat(TRUE, 2, 147483649, 0),
     BigFloat(FALSE, 3, 0, 0)}

\* the entities whose properties are numbers without annotation
NumberEntities ==
    UNION {[D -> NumberValues] : D \in (SUBSET PropertyKeys) \ {{}}}

---------------------------------------------------------------------------
(* Data-plane clients: package client (unnamed/part_000).  Strings that    *)
(* the code trims are sequences of tokens, "" being <<>>.                  *)

\* a Go pointer or interface value: nil, or a reference to v
NilPtr == [ptr |-> "nil"]

Ptr(v) == [ptr |-> "to", v |-> v]

\* a nil error
NoError == "nil"

EndpointTypeBlob == "blob"

EndpointTypeFile == "file"

EndpointTypeQueue == "queue"

EndpointTypeTable == "table"

EndpointTypes ==
    {EndpointTypeBlob, EndpointTypeFile, EndpointTypeQueue, EndpointTypeTable}

\* strings.TrimSuffix(s, suffix)
TrimSuffix(s, suffix) ==
    IF Len(s) >= 1 /\ s[Len(s)] = suffix THEN SubSeq(s, 1, Len(s) - 1) ELSE s

\* account.Properties.PrimaryEndpoints.<Blob|File|Queue|Table>
PrimaryEndpoint(endpoints, endpointType) ==
    CASE endpointType = EndpointTypeBlob -> endpoints.Blob
      [] endpointType = EndpointTypeFile -> endpoints.File
      [] endpointType = EndpointTypeQueue -> endpoints.Queue
      [] endpointType = EndpointTypeTable -> endpoints.Table

\* dataPlaneEndpoint: [uri, err]
dataPlaneEndpoint(acc, endpointType) ==
    IF acc.Properties = NilPtr
    THEN [uri |-> NilPtr, err |-> "has no properties"]
    ELSE IF acc.Properties.v.PrimaryEndpoints = NilPtr
    THEN [uri |-> NilPtr, err |-> "has missing endpoints"]
    ELSE IF endpointType \notin EndpointTypes
    THEN [uri |-> NilPtr, err |-> "internal-error: unrecognised endpoint type"]
    ELSE LET p == PrimaryEndpoint(acc.Properties.v.PrimaryEndpoints.v, endpointType)
             uri == IF p # NilPtr THEN TrimSuffix(p.v, "/") ELSE <<>>
         IN  IF uri = <<>>
             THEN [uri |-> NilPtr, err |-> "determining storage account endpoint"]
             ELSE [uri |-> Ptr(uri), err |-> NoError]

\* a DataPlaneOperation
DataPlaneOperation(aad, sharedKey) ==
    [SupportsAadAuthentication |-> aad,
     SupportsSharedKeyAuthentication |-> sharedKey,
     sharedKeyAuthenticationType |-> ""]

DataPlaneOperationSupportingAnyAuthMethod == DataPlaneOperation(TRUE, TRUE)

DataPlaneOperationSupportingOnlySharedKeyAuth == DataPlaneOperation(FALSE, TRUE)

AadSelected_AnyOperation(cl, op) == cl.authorizerForAad # NilPtr

\* the condition of ConfigureDataPlane's first branch
AadSelected(cl, op) ==
    op.SupportsAadAuthentication /\ cl.authorizerForAad # NilPtr

\* auth.NewSharedKeyAuthorizer(account.name, *accountKey, keyType)
SharedKeyAuthorizer(acc, keyType) ==
    Ptr([auth |-> "SharedKey", accountName |-> acc.name, keyType |-> keyType])

\* ConfigureDataPlane, given whether account.AccountKey and
\* auth.NewSharedKeyAuthorizer succeed: [authorizer, keyCalls, err], where
\* authorizer is what SetAuthorizer was called with (NilPtr: not called)
ConfigureDataPlane(cl, acc, op, keyOk, authOk) ==
    IF AadSelected(cl, op)
    THEN [authorizer |-> cl.authorizerForAad, keyCalls |-> 0, err |-> NoError]
    ELSE IF op.SupportsSharedKeyAuthentication
    THEN IF ~keyOk
         THEN [authorizer |-> NilPtr, keyCalls |-> 1,
               err |-> "retrieving Storage Account Key"]
         ELSE IF ~authOk
         THEN [authorizer |-> NilPtr, keyCalls |-> 1,
               err |-> "building Shared Key Authorizer"]
         ELSE [authorizer |-> SharedKeyAuthorizer(acc, op.sharedKeyAuthenticationType),
               keyCalls |-> 1, err |-> NoError]
    ELSE [authorizer |-> NilPtr, keyCalls |-> 0,
          err |-> "no configured authentication types are supported"]

\* the nine ...DataPlaneClient constructors
Constructors ==
    {"Accounts", "Blobs", "Containers", "FileShareDirectories",
     "FileShareFiles", "FileShares", "Queues", "TableEntity", "Tables"}

EndpointTypeFor_TableEntityBlob(c) ==
    CASE c \in {"Accounts", "Blobs", "Containers", "TableEntity"} -> EndpointTypeBlob
      [] c \in {"FileShareDirectories", "FileShareFiles", "FileShares"} -> EndpointTypeFile
      [] c = "Queues" -> EndpointTypeQueue
      [] c = "Tables" -> EndpointTypeTable

\* the endpoint type each constructor passes to dataPlaneEndpoint
EndpointTypeFor(c) ==
    CASE c \in {"Accounts", "Blobs", "Containers"} -> EndpointTypeBlob
      [] c \in {"FileShareDirectories", "FileShareFiles", "FileShares"} -> EndpointTypeFile
      [] c = "Queues" -> EndpointTypeQueue
      [] c \in {"TableEntity", "Tables"} -> EndpointTypeTable

\* operation.sharedKeyAuthenticationType = ..., each constructor's first line
SharedKeyTypeFor(c) ==
    IF c \in {"TableEntity", "Tables"} THEN "sharedKeyTable" ELSE "sharedKey"

\* a whole constructor, given which of its calls succeed: [client, err,
\* authorizer, keyCalls]; client is NilPtr or the new client's base URI
DataPlaneClient(cl, c, acc, op, newOk, keyOk, authOk) ==
    LET typed == [op EXCEPT !.sharedKeyAuthenticationType = SharedKeyTypeFor(c)]
        endpoint == dataPlaneEndpoint(acc, EndpointTypeFor(c))
        configured == ConfigureDataPlane(cl, acc, typed, keyOk, authOk)
    IN  IF endpoint.err # NoError
        THEN [client |-> NilPtr, err |-> endpoint.err,
              authorizer |-> NilPtr, keyCalls |-> 0]
        ELSE IF ~newOk
        THEN [client |-> NilPtr, err |-> "building client",
              authorizer |-> NilPtr, keyCalls |-> 0]
        ELSE IF configured.err # NoError
        THEN [client |-> NilPtr, err |-> configured.err,
              authorizer |-> configured.authorizer, keyCalls |-> configured.keyCalls]
        ELSE [client |-> Ptr([BaseUri |-> endpoint.uri.v]), err |-> NoError,
              authorizer |-> configured.authorizer, keyCalls |-> configured.keyCalls]

\* --- the accounts, clients and operations the constructors are called with

EndpointUrl(endpointType) == "https://acc." \o endpointType \o ".core.windows.net"

EndpointValues(endpointType) ==
    {NilPtr, Ptr(<<>>), Ptr(<<EndpointUrl(endpointType)>>),
     Ptr(<<EndpointUrl(endpointType), "/">>)}

AccountWith(b, f, q, t) ==
    [name |-> "acc",
     Properties |-> Ptr([PrimaryEndpoints |->
                            Ptr([Blob |-> b, File |-> f, Queue |-> q, Table |-> t])])]

Accounts ==
    {[name |-> "acc", Properties |-> NilPtr],
     [name |-> "acc", Properties |-> Ptr([PrimaryEndpoints |-> NilPtr])]}
    \cup {AccountWith(b, f, q, t) :
            b \in EndpointValues(EndpointTypeBlob),
            f \in EndpointValues(EndpointTypeFile),
            q \in EndpointValues(EndpointTypeQueue),
            t \in EndpointValues(EndpointTypeTable)}

AadAuthorizer == Ptr([auth |-> "Aad"])

StorageClients ==
    {[authorizerForAad |-> NilPtr], [authorizerForAad |-> AadAuthorizer]}

Operations == {DataPlaneOperation(a, s) : a \in BOOLEAN, s \in BOOLEAN}

\* nothing of the constructors is running
ClientIdle ==
    /\ ctor = "none"
    /\ operation = DataPlaneOperation(FALSE, FALSE)
    /\ baseUri = NilPtr
    /\ authorizer = NilPtr
    /\ keyCalls = 0
    /\ ret = [client |-> NilPtr, err |-> NoError]
    /\ cpc = "idle"

\* the codec is not running
FlattenIdle ==
    /\ raw = EmptyMap
    /\ entity = EmptyMap
    /\ result = EmptyMap
    /\ todo = {}
    /\ warned = {}
    /\ pass = 0
    /\ pc = "idle"

---------------------------------------------------------------------------
(* The handlers of azurerm_storage_table_entity: what they compute. *)

\* entities.NewEntityID(accountId, tableName, partitionKey, rowKey)
NewEntityID(accountName, tableName, partitionKey, rowKey) ==
    [AccountName |-> accountName, TableName |-> tableName,
     PartitionKey |-> partitionKey, RowKey |-> rowKey]

\* id.ID(): the entity's URL, as tokens
ID(id) ==
    <<"https://", id.AccountName, ".table.core.windows.net/", id.TableName,
      "(PartitionKey='", id.PartitionKey, "',RowKey='", id.RowKey, "')">>

\* entities.ParseEntityID(d.Id(), suffix): [id, err]
ParseEntityID(s) ==
    IF /\ Len(s) = Len(ID(NewEntityID("", "", "", "")))
       /\ s = ID(NewEntityID(s[2], s[4], s[6], s[8]))
    THEN [id |-> NewEntityID(s[2], s[4], s[6], s[8]), err |-> NoError]
    ELSE [id |-> NilPtr, err |-> "parsing Entity ID"]

\* the ID built on line 109 from the declared fields
DeclaredID(data) ==
    NewEntityID(data.Get.storage_account_name, data.Get.table_name,
                data.Get.partition_key, data.Get.row_key)

InsertOrMergeEntityInput_Flattened(data) ==
    [PartitionKey |-> data.Get.partition_key,
     RowKey |-> data.Get.row_key,
     Entity |-> flattenEntity(data.Get.entity)]

\* lines 134-138: the payload of InsertOrMerge
InsertOrMergeEntityInput(data) ==
    [PartitionKey |-> data.Get.partition_key,
     RowKey |-> data.Get.row_key,
     Entity |-> data.Get.entity]

\* lines 117-121 and 174-178: the input of Get
GetEntityInput(partitionKey, rowKey, level) ==
    [PartitionKey |-> partitionKey, RowKey |-> rowKey, MetaDataLevel |-> level]

\* lines 220-223: the input of Delete
DeleteEntityInput(id) == [PartitionKey |-> id.PartitionKey, RowKey |-> id.RowKey]

\* response.WasNotFound(existing.HttpResponse), of a Get that ended `outcome`
WasNotFound(outcome) == outcome = "notfound"

ExistenceCheckError_FoundIgnored(outcome) ==
    IF outcome # "found" /\ ~WasNotFound(outcome)
    THEN "checking for existing"
    ELSE NoError

\* lines 123-131: the error of a new resource's existence check
ExistenceCheckError(outcome) ==
    IF outcome # "found" /\ ~WasNotFound(outcome)
    THEN "checking for existing"
    ELSE IF ~WasNotFound(outcome)
    THEN "ImportAsExistsError"
    ELSE NoError

MissingAccountError_AssumeRemoved(data) == NoError

\* lines 94-102: what CreateUpdate returns when FindAccount found no account
MissingAccountError(data) ==
    IF data.IsNewResource THEN "locating Storage Account" ELSE NoError

IdAfterInsert_Always(data, ok) == ID(DeclaredID(data))

\* lines 140-144: d.Id() after InsertOrMerge succeeded (ok) or failed
IdAfterInsert(data, ok) == IF ok THEN ID(DeclaredID(data)) ELSE data.Id

ReadGetFailed_NotFoundTolerated(got) == got.outcome = "error"

\* line 181: err != nil after the Get of Read
ReadGetFailed(got) == got.outcome # "found"

\* result.Entity: a Get that failed returns the zero result
EntityOf(got) == IF got.outcome = "found" THEN got.Entity ELSE EmptyMap

\* lines 185-192: the fields Read writes with d.Set; setOk is whether
\* d.Set("entity", ...) accepts the flattened map
ReadState(id, flattened, setOk) ==
    IF setOk
    THEN [storage_account_name |-> id.AccountName, table_name |-> id.TableName,
          partition_key |-> id.PartitionKey, row_key |-> id.RowKey,
          entity |-> flattened]
    ELSE [storage_account_name |-> id.AccountName, table_name |-> id.TableName,
          partition_key |-> id.PartitionKey, row_key |-> id.RowKey]

\* --- what the handlers are called with

\* the `entity` blocks of the configuration: maps of strings
DeclaredEntities ==
    {(<<"a">> :> Str("1")),
     (<<"a">> :> Str("1.5")) @@ (AnnotationKey(<<"a">>) :> Str("Edm.Double")),
     (Timestamp :> Str("t")) @@ (<<"b">> :> Str("x"))}

\* the declared fields, read with d.Get
Declared ==
    [storage_account_name : {"acc"}, table_name : {"t1"},
     partition_key : {"p1", "p2"}, row_key : {"r1"},
     entity : DeclaredEntities]

\* the ResourceData a handler is given: a new resource has no ID yet
ResourceData(declared, isNew) ==
    LET data == [Id |-> <<>>, IsNewResource |-> isNew, Get |-> declared,
                 Set |-> EmptyMap]
    IN  IF isNew THEN data ELSE [data EXCEPT !.Id = ID(DeclaredID(data))]

\* the accounts FindAccount finds: they differ in the table endpoint
HandlerAccounts ==
    {a \in Accounts :
        (a.Properties # NilPtr /\ a.Properties.v.PrimaryEndpoints # NilPtr)
           => LET e == a.Properties.v.PrimaryEndpoints.v
              IN  /\ e.Blob = Ptr(<<EndpointUrl(EndpointTypeBlob), "/">>)
                  /\ e.File = Ptr(<<EndpointUrl(EndpointTypeFile), "/">>)
                  /\ e.Queue = Ptr(<<EndpointUrl(EndpointTypeQueue), "/">>)}

\* what FindAccount returns: an error, no account, or an account
FindAccountOutcomes ==
    {[account |-> NilPtr, err |-> "FindAccount"], [account |-> NilPtr, err |-> NoError]}
    \cup {[account |-> Ptr(a), err |-> NoError] : a \in HandlerAccounts}

\* the entities the table holds, as Get returns them with full metadata
RemoteEntities ==
    {ScenarioEntity,
     (<<"a">> :> Float(FALSE, 3, 0)),
     (<<"a">> :> Bool(FALSE)) @@ (AnnotationKey(<<"a">>) :> Str("Edm.String"))}

\* how a Get can end: an entity, a 404, or another failure
GetOutcomes ==
    {[outcome |-> "notfound"], [outcome |-> "error"]}
    \cup {[outcome |-> "found", Entity |-> e] : e \in RemoteEntities}

\* no handler is running
HandlerIdle ==
    /\ handler = "none"
    /\ d = [Id |-> <<>>, IsNewResource |-> FALSE]
    /\ calls = <<>>
    /\ err = NoError
    /\ hpc = "idle"

\* the client constructors and the handlers have not been given anything
SharedIdle ==
    /\ storageClient = [authorizerForAad |-> NilPtr]
    /\ account = NilPtr

---------------------------------------------------------------------------
(* The ACLs of azurerm_storage_table (unnamed/part_002).  A Go slice is a  *)
(* sequence; an acl element is [id, access_policy], access_policy being  *)
(* the list of its [start, expiry, permissions] blocks.                    *)

\* how many acl blocks a table declares at most
MaxAcls == 2

\* policies[0] is evaluated: an index out of range is a run-time panic
IndexPanics(policies) == Len(policies) = 0

\* lines 272-284: the SignedIdentifier of one acl element with a policy
SignedIdentifier(vals) ==
    LET policy == vals.access_policy[1]
    IN  [Id |-> vals.id,
         AccessPolicy |-> [Start |-> policy.start,
                           Expiry |-> policy.expiry,
                           Permission |-> policy.permissions]]

\* lines 297-306: the acl element of one SignedIdentifier
FlattenedAcl(v) ==
    [id |-> v.Id,
     access_policy |-> <<[start |-> v.AccessPolicy.Start,
                          expiry |-> v.AccessPolicy.Expiry,
                          permissions |-> v.AccessPolicy.Permission]>>]

\* flattenStorageTableACLs(input), input a pointer to a slice
flattenStorageTableACLs(input) ==
    IF input = NilPtr THEN <<>>
    ELSE [i \in DOMAIN input.v |-> FlattenedAcl(input.v[i])]

\* the access_policy blocks a configuration may hold
AccessPolicies ==
    {[start |-> "2020", expiry |-> "2021", permissions |-> "r"],
     [start |-> "2022", expiry |-> "2023", permissions |-> "raud"]}

\* the access_policy lists the schema accepts: Optional, no MinItems, no
\* MaxItems
AccessPolicyLists ==
    {<<>>} \cup {<<p>> : p \in AccessPolicies}
           \cup {<<p, q>> : p \in AccessPolicies, q \in AccessPolicies}

\* the acl elements the schema accepts: id is required
AclElements == [id : {"a", "b"}, access_policy : AccessPolicyLists]

\* the lists of a set's elements: no element twice
RECURSIVE AclLists(_)
AclLists(n) ==
    IF n = 0 THEN {<<>>}
    ELSE AclLists(n - 1)
         \cup {Append(s, e) : s \in {x \in AclLists(n - 1) : Len(x) = n - 1},
                              e \in AclElements}

AclInputs ==
    {s \in AclLists(MaxAcls) :
        \A i \in DOMAIN s, j \in DOMAIN s : i # j => s[i] # s[j]}

\* the ACL conversions are not running
AclIdle ==
    /\ aclsRaw = <<>>
    /\ acls = <<>>
    /\ aclAttr = <<>>
    /\ apc = "idle"

---------------------------------------------------------------------------
(* The state machine: a call of flattenEntity, step by step. *)

Init ==
    /\ raw \in RawEntities
    /\ entity = raw
    /\ result = EmptyMap
    /\ todo = {}
    /\ warned = {}
    /\ pass = 1
    /\ pc = "call"
    /\ SharedIdle
    /\ ClientIdle
    /\ HandlerIdle
    /\ AclIdle

\* lines 234-238: the three deletes, result := {}, the range starts
FlattenEnter ==
    /\ pc = "call"
    /\ entity' = DeleteReserved(entity)
    /\ result' = EmptyMap
    /\ todo' = DOMAIN entity'
    /\ pc' = "range"
    /\ UNCHANGED <<raw, warned, pass>>
    /\ UNCHANGED <<sharedVars, clientVars, handlerVars, aclVars>>

\* lines 239-284: one iteration; Go visits the keys in any order
FlattenRange ==
    /\ pc = "range"
    /\ \E k \in todo :
        /\ result' = FlattenKey(entity, result, k)
        /\ warned' = warned \cup FlattenWarnings(entity, k)
        /\ todo' = todo \ {k}
    /\ UNCHANGED <<raw, entity, pass, pc>>
    /\ UNCHANGED <<sharedVars, clientVars, handlerVars, aclVars>>

\* line 286: return result
FlattenReturn ==
    /\ pc = "range"
    /\ todo = {}
    /\ pc' = "done"
    /\ UNCHANGED <<raw, entity, result, todo, warned, pass>>
    /\ UNCHANGED <<sharedVars, clientVars, handlerVars, aclVars>>

\* the flattened map is decoded again
Redecode ==
    /\ pc = "done"
    /\ pass < MaxPasses
    /\ raw' = result
    /\ entity' = result
    /\ result' = EmptyMap
    /\ todo' = {}
    /\ warned' = {}
    /\ pass' = pass + 1
    /\ pc' = "call"
    /\ UNCHANGED <<sharedVars, clientVars, handlerVars, aclVars>>

Next == FlattenEnter \/ FlattenRange \/ FlattenReturn \/ Redecode

Spec == Init /\ [][Next]_vars

\* a call of a sequential function runs to its return
FairSpec == Spec /\ WF_vars(Next)

\* flattenEntity called on entities of numbers
NumberInit ==
    /\ raw \in NumberEntities
    /\ entity = raw
    /\ result = EmptyMap
    /\ todo = {}
    /\ warned = {}
    /\ pass = 1
    /\ pc = "call"
    /\ SharedIdle
    /\ ClientIdle
    /\ HandlerIdle
    /\ AclIdle

NumberSpec == NumberInit /\ [][Next]_vars

---------------------------------------------------------------------------
(* The state machine of a call of one of the ...DataPlaneClient            *)
(* constructors of package client.                                         *)

ClientInit ==
    /\ FlattenIdle
    /\ HandlerIdle
    /\ AclIdle
    /\ storageClient \in StorageClients
    /\ account \in Accounts
    /\ ctor \in Constructors
    /\ operation \in Operations
    /\ baseUri = NilPtr
    /\ authorizer = NilPtr
    /\ keyCalls = 0
    /\ ret = [client |-> NilPtr, err |-> NoError]
    /\ cpc = "call"

\* the constructor's first lines: the shared-key type is set, the endpoint
\* of the constructor's type is looked up
ClientEndpoint ==
    /\ cpc = "call"
    /\ operation' = [operation EXCEPT
                        !.sharedKeyAuthenticationType = SharedKeyTypeFor(ctor)]
    /\ LET endpoint == dataPlaneEndpoint(account, EndpointTypeFor(ctor))
       IN  IF endpoint.err # NoError
           THEN /\ ret' = [client |-> NilPtr, err |-> endpoint.err]
                /\ cpc' = "done"
                /\ UNCHANGED baseUri
           ELSE /\ baseUri' = endpoint.uri
                /\ cpc' = "new"
                /\ UNCHANGED ret
    /\ UNCHANGED <<ctor, authorizer, keyCalls>>
    /\ UNCHANGED <<flattenVars, sharedVars, handlerVars, aclVars>>

\* apiClient, err := <package>.NewWithBaseUri(*baseUri)
ClientNewWithBaseUri ==
    /\ cpc = "new"
    /\ \E ok \in BOOLEAN :
        IF ok
        THEN cpc' = "configure" /\ UNCHANGED ret
        ELSE ret' = [client |-> NilPtr, err |-> "building client"] /\ cpc' = "done"
    /\ UNCHANGED <<ctor, operation, baseUri, authorizer, keyCalls>>
    /\ UNCHANGED <<flattenVars, sharedVars, handlerVars, aclVars>>

\* err = client.ConfigureDataPlane(...), and the constructor's return
ClientConfigure ==
    /\ cpc = "configure"
    /\ \E keyOk \in BOOLEAN, authOk \in BOOLEAN :
        LET configured ==
                ConfigureDataPlane(storageClient, account, operation, keyOk, authOk)
        IN  /\ authorizer' = configured.authorizer
            /\ keyCalls' = keyCalls + configured.keyCalls
            /\ ret' = IF configured.err # NoError
                      THEN [client |-> NilPtr, err |-> configured.err]
                      ELSE [client |-> Ptr([BaseUri |-> baseUri.v]), err |-> NoError]
    /\ cpc' = "done"
    /\ UNCHANGED <<ctor, operation, baseUri>>
    /\ UNCHANGED <<flattenVars, sharedVars, handlerVars, aclVars>>

ClientNext == ClientEndpoint \/ ClientNewWithBaseUri \/ ClientConfigure

ClientSpec == ClientInit /\ [][ClientNext]_vars

---------------------------------------------------------------------------
(* The state machine of the entity resource's handlers: one invocation of  *)
(* Create, Update, Read or Delete by the framework.  Every call a handler  *)
(* makes is appended to `calls`.                                           *)

HandlerInit ==
    /\ FlattenIdle
    /\ ClientIdle
    /\ AclIdle
    /\ storageClient \in StorageClients
    /\ account = NilPtr
    /\ handler \in {"Create", "Update", "Read", "Delete"}
    /\ \E declared \in Declared : d = ResourceData(declared, handler = "Create")
    /\ calls = <<>>
    /\ err = NoError
    /\ hpc = IF handler \in {"Create", "Update"} THEN "CreateUpdate" ELSE handler

\* storageClient.FindAccount(ctx, accountName), as it is logged
FindAccountCall(accountName, found) ==
    [call |-> "FindAccount", accountName |-> accountName,
     err |-> found.err, found |-> found.account # NilPtr]

\* d.SetId(id), as it is logged
SetIdCall(id) == [call |-> "SetId", Id |-> id]

\* storageClient.TableEntityDataPlaneClient(ctx, *account, any auth method),
\* given which of the constructor's calls succeed
TableEntityDataPlaneClient(newOk, keyOk, authOk) ==
    DataPlaneClient(storageClient, "TableEntity", account.v,
                    DataPlaneOperationSupportingAnyAuthMethod, newOk, keyOk, authOk)

\* lines 84-102
CreateUpdateFindAccount ==
    /\ hpc = "CreateUpdate"
    /\ \E found \in FindAccountOutcomes :
        LET lookup == FindAccountCall(d.Get.storage_account_name, found)
        IN  IF found.err # NoError
            THEN /\ calls' = Append(calls, lookup)
                 /\ err' = "retrieving Account"
                 /\ hpc' = "done"
                 /\ UNCHANGED <<d, account>>
            ELSE IF found.account = NilPtr
            THEN /\ hpc' = "done"
                 /\ UNCHANGED account
                 /\ IF MissingAccountError(d) # NoError
                    THEN /\ calls' = Append(calls, lookup)
                         /\ err' = MissingAccountError(d)
                         /\ UNCHANGED d
                    ELSE /\ calls' = calls \o <<lookup, SetIdCall(<<>>)>>
                         /\ d' = [d EXCEPT !.Id = <<>>]
                         /\ err' = NoError
            ELSE /\ calls' = Append(calls, lookup)
                 /\ account' = found.account
                 /\ hpc' = "CreateUpdate:client"
                 /\ UNCHANGED <<d, err>>
    /\ UNCHANGED <<handler, storageClient>>
    /\ UNCHANGED <<flattenVars, clientVars, aclVars>>

\* lines 104-116
CreateUpdateClient ==
    /\ hpc = "CreateUpdate:client"
    /\ \E newOk \in BOOLEAN, keyOk \in BOOLEAN, authOk \in BOOLEAN :
        LET built == TableEntityDataPlaneClient(newOk, keyOk, authOk)
        IN  /\ calls' = Append(calls, [call |-> "TableEntityDataPlaneClient",
                                       err |-> built.err])
            /\ IF built.err # NoError
               THEN err' = "building Entity Client" /\ hpc' = "done"
               ELSE /\ hpc' = IF d.IsNewResource THEN "CreateUpdate:Get"
                              ELSE "CreateUpdate:InsertOrMerge"
                    /\ UNCHANGED err
    /\ UNCHANGED <<handler, d, sharedVars>>
    /\ UNCHANGED <<flattenVars, clientVars, aclVars>>

\* lines 117-132: the existence check of a new resource
CreateUpdateGet ==
    /\ hpc = "CreateUpdate:Get"
    /\ \E existing \in GetOutcomes :
        /\ calls' = Append(calls,
              [call |-> "Get",
               input |-> GetEntityInput(d.Get.partition_key, d.Get.row_key, "NoMetaData"),
               outcome |-> existing.outcome])
        /\ IF ExistenceCheckError(existing.outcome) # NoError
           THEN err' = ExistenceCheckError(existing.outcome) /\ hpc' = "done"
           ELSE hpc' = "CreateUpdate:InsertOrMerge" /\ UNCHANGED err
    /\ UNCHANGED <<handler, d, sharedVars>>
    /\ UNCHANGED <<flattenVars, clientVars, aclVars>>

\* lines 134-146: the write, d.SetId, and the call of Read
CreateUpdateInsertOrMerge ==
    /\ hpc = "CreateUpdate:InsertOrMerge"
    /\ \E ok \in BOOLEAN :
        LET write == [call |-> "InsertOrMerge",
                      input |-> InsertOrMergeEntityInput(d), ok |-> ok]
        IN  /\ d' = [d EXCEPT !.Id = IdAfterInsert(d, ok)]
            /\ IF ok
               THEN /\ calls' = calls \o <<write, SetIdCall(ID(DeclaredID(d)))>>
                    /\ hpc' = "Read"
                    /\ UNCHANGED err
               ELSE /\ calls' = Append(calls, write)
                    /\ err' = "creating"
                    /\ hpc' = "done"
    /\ UNCHANGED <<handler, sharedVars>>
    /\ UNCHANGED <<flattenVars, clientVars, aclVars>>

\* lines 149-157: Read is entered, by the framework or from CreateUpdate
ReadEnter ==
    /\ hpc = "Read"
    /\ calls' = Append(calls, [call |-> "Read", Id |-> d.Id])
    /\ IF ParseEntityID(d.Id).err # NoError
       THEN err' = ParseEntityID(d.Id).err /\ hpc' = "done"
       ELSE hpc' = "Read:FindAccount" /\ UNCHANGED err
    /\ UNCHANGED <<handler, d, sharedVars>>
    /\ UNCHANGED <<flattenVars, clientVars, aclVars>>

\* lines 159-167
ReadFindAccount ==
    /\ hpc = "Read:FindAccount"
    /\ \E found \in FindAccountOutcomes :
        LET lookup == FindAccountCall(ParseEntityID(d.Id).id.AccountName, found)
        IN  IF found.err # NoError
            THEN /\ calls' = Append(calls, lookup)
                 /\ err' = "retrieving Account"
                 /\ hpc' = "done"
                 /\ UNCHANGED <<d, account>>
            ELSE IF found.account = NilPtr
            THEN /\ calls' = calls \o <<lookup, SetIdCall(<<>>)>>
                 /\ d' = [d EXCEPT !.Id = <<>>]
                 /\ err' = NoError
                 /\ hpc' = "done"
                 /\ UNCHANGED account
            ELSE /\ calls' = Append(calls, lookup)
                 /\ account' = found.account
                 /\ hpc' = "Read:client"
                 /\ UNCHANGED <<d, err>>
    /\ UNCHANGED <<handler, storageClient>>
    /\ UNCHANGED <<flattenVars, clientVars, aclVars>>

\* lines 169-172
ReadClient ==
    /\ hpc = "Read:client"
    /\ \E newOk \in BOOLEAN, keyOk \in BOOLEAN, authOk \in BOOLEAN :
        LET built == TableEntityDataPlaneClient(newOk, keyOk, authOk)
        IN  /\ calls' = Append(calls, [call |-> "TableEntityDataPlaneClient",
                                       err |-> built.err])
            /\ IF built.err # NoError
               THEN err' = "building Table Entity Client" /\ hpc' = "done"
               ELSE hpc' = "Read:Get" /\ UNCHANGED err
    /\ UNCHANGED <<handler, d, sharedVars>>
    /\ UNCHANGED <<flattenVars, clientVars, aclVars>>

\* lines 174-194: the Get, the d.Set calls and flattenEntity
ReadGet ==
    /\ hpc = "Read:Get"
    /\ \E got \in GetOutcomes, setOk \in BOOLEAN :
        LET id == ParseEntityID(d.Id).id
            get == [call |-> "Get",
                    input |-> GetEntityInput(id.PartitionKey, id.RowKey, "FullMetaData"),
                    outcome |-> got.outcome]
        IN  IF ReadGetFailed(got)
            THEN /\ calls' = Append(calls, get)
                 /\ err' = "retrieving"
                 /\ UNCHANGED d
            ELSE /\ calls' = calls \o <<get, [call |-> "flattenEntity",
                                              entity |-> EntityOf(got)]>>
                 /\ d' = [d EXCEPT !.Set = ReadState(id, flattenEntity(EntityOf(got)), setOk)]
                 /\ err' = IF setOk THEN NoError ELSE "setting entity"
    /\ hpc' = "done"
    /\ UNCHANGED <<handler, sharedVars>>
    /\ UNCHANGED <<flattenVars, clientVars, aclVars>>

\* lines 197-213
DeleteFindAccount ==
    /\ hpc = "Delete"
    /\ IF ParseEntityID(d.Id).err # NoError
       THEN /\ err' = ParseEntityID(d.Id).err
            /\ hpc' = "done"
            /\ UNCHANGED <<calls, account>>
       ELSE /\ \E found \in FindAccountOutcomes :
                /\ calls' = Append(calls,
                      FindAccountCall(ParseEntityID(d.Id).id.AccountName, found))
                /\ IF found.err # NoError
                   THEN /\ err' = "retrieving Storage Account"
                        /\ hpc' = "done"
                        /\ UNCHANGED account
                   ELSE IF found.account = NilPtr
                   THEN /\ err' = "locating Storage Account"
                        /\ hpc' = "done"
                        /\ UNCHANGED account
                   ELSE /\ account' = found.account
                        /\ hpc' = "Delete:client"
                        /\ UNCHANGED err
    /\ UNCHANGED <<handler, d, storageClient>>
    /\ UNCHANGED <<flattenVars, clientVars, aclVars>>

\* lines 215-218
DeleteClient ==
    /\ hpc = "Delete:client"
    /\ \E newOk \in BOOLEAN, keyOk \in BOOLEAN, authOk \in BOOLEAN :
        LET built == TableEntityDataPlaneClient(newOk, keyOk, authOk)
        IN  /\ calls' = Append(calls, [call |-> "TableEntityDataPlaneClient",
                                       err |-> built.err])
            /\ IF built.err # NoError
               THEN err' = "building Entity Client" /\ hpc' = "done"
               ELSE hpc' = "Delete:Delete" /\ UNCHANGED err
    /\ UNCHANGED <<handler, d, sharedVars>>
    /\ UNCHANGED <<flattenVars, clientVars, aclVars>>

\* lines 220-229
DeleteDelete ==
    /\ hpc = "Delete:Delete"
    /\ \E ok \in BOOLEAN :
        /\ calls' = Append(calls, [call |-> "Delete",
                                   input |-> DeleteEntityInput(ParseEntityID(d.Id).id),
                                   ok |-> ok])
        /\ err' = IF ok THEN NoError ELSE "deleting"
    /\ hpc' = "done"
    /\ UNCHANGED <<handler, d, sharedVars>>
    /\ UNCHANGED <<flattenVars, clientVars, aclVars>>

HandlerNext ==
    \/ CreateUpdateFindAccount
    \/ CreateUpdateClient
    \/ CreateUpdateGet
    \/ CreateUpdateInsertOrMerge
    \/ ReadEnter
    \/ ReadFindAccount
    \/ ReadClient
    \/ ReadGet
    \/ DeleteFindAccount
    \/ DeleteClient
    \/ DeleteDelete

HandlerSpec == HandlerInit /\ [][HandlerNext]_vars

---------------------------------------------------------------------------
(* The state machine of the table's ACL conversions: the declared acl set  *)
(* is expanded, and what was expanded is flattened again.                  *)

AclInit ==
    /\ FlattenIdle
    /\ SharedIdle
    /\ ClientIdle
    /\ HandlerIdle
    /\ aclsRaw \in AclInputs
    /\ acls = <<>>
    /\ aclAttr = <<>>
    /\ apc = "expand"

\* lines 271-286: one iteration of the range over input
ExpandRange ==
    /\ apc = "expand"
    /\ Len(acls) < Len(aclsRaw)
    /\ LET vals == aclsRaw[Len(acls) + 1]
       IN  IF IndexPanics(vals.access_policy)
           THEN apc' = "panic" /\ UNCHANGED acls
           ELSE acls' = Append(acls, SignedIdentifier(vals)) /\ UNCHANGED apc
    /\ UNCHANGED <<aclsRaw, aclAttr>>
    /\ UNCHANGED <<flattenVars, sharedVars, clientVars, handlerVars>>

\* line 288: return results
ExpandReturn ==
    /\ apc = "expand"
    /\ Len(acls) = Len(aclsRaw)
    /\ apc' = "expanded"
    /\ UNCHANGED <<aclsRaw, acls, aclAttr>>
    /\ UNCHANGED <<flattenVars, sharedVars, clientVars, handlerVars>>

\* lines 291-313: flattenStorageTableACLs on the expanded identifiers
FlattenAcls ==
    /\ apc = "expanded"
    /\ aclAttr' = flattenStorageTableACLs(Ptr(acls))
    /\ apc' = "done"
    /\ UNCHANGED <<aclsRaw, acls>>
    /\ UNCHANGED <<flattenVars, sharedVars, clientVars, handlerVars>>

AclNext == ExpandRange \/ ExpandReturn \/ FlattenAcls

AclSpec == AclInit /\ [][AclNext]_vars

---------------------------------------------------------------------------
(* Vocabulary of the properties. *)

Returned == pc = "done"

\* a user-defined property of map m: not reserved, not OData metadata
UserProperty(m, k) ==
    /\ k \in DOMAIN m
    /\ k \notin ReservedKeys
    /\ ~HasPrefix(k, odataPrefix)
    /\ ~HasSuffix(k, odataTypeSuffix)

Annotated(m, k) == AnnotationKey(k) \in DOMAIN m

AnnotatedAs(m, k, name) == Annotated(m, k) /\ m[AnnotationKey(k)] = Str(name)

SupportedNames ==
    {"Edm.Boolean", "Edm.Double", "Edm.Int32", "Edm.Int64", "Edm.String"}

UnsupportedAnnotation(m, k) ==
    /\ UserProperty(m, k)
    /\ Annotated(m, k)
    /\ \A n \in SupportedNames : m[AnnotationKey(k)] # Str(n)

UnrecognisedKind(m, k) ==
    /\ UserProperty(m, k)
    /\ ~Annotated(m, k)
    /\ m[k].kind \notin {"bool", "float64", "string"}

\* the natural decimal text of the floats the model draws
NaturalText(f) ==
    CASE f = Float(FALSE, 3, 0) -> "3"
      [] f = Float(FALSE, 123, 123) -> "123.123"
      [] f = Float(TRUE, 0, 500) -> "-0.5"
      [] f = Float(FALSE, 1000000, 0) -> "1e+06"

---------------------------------------------------------------------------
(* C1: every float property annotated Edm.Double is emitted in its natural *)
(* decimal text (123.123 -> "123.123"), not with six fractional digits.    *)
C1_DoubleNaturalText ==
    Returned =>
        \A k \in DOMAIN raw :
            (/\ UserProperty(raw, k)
             /\ AnnotatedAs(raw, k, "Edm.Double")
             /\ raw[k].kind = "float64")
            => (k \in DOMAIN result /\ result[k] = Str(NaturalText(raw[k])))

(* C2: after flattenEntity returns, the caller's map holds the same keys   *)
(* and values as before the call.                                          *)
C2_CallerMapUnchanged == Returned => entity = raw

(* C3: when every value of the raw map is a boolean, a float or a string,  *)
(* every value of the output is a string.                                  *)
C3_OutputAllStrings ==
    (/\ Returned
     /\ \A k \in DOMAIN raw : raw[k].kind \in {"bool", "float64", "string"})
    => \A k \in DOMAIN result : result[k].kind = "string"

(* C4: decoding the output of a decode leaves every string value as it is: *)
(* each key of Decode(x) is a key of Decode(Decode(x)) with the same value.*)
C4_Idempotent ==
    (Returned /\ pass >= 2) =>
        \A k \in DOMAIN raw :
            raw[k].kind = "string" =>
                (k \in DOMAIN result /\ result[k] = raw[k])

ScenarioOutput ==
    (<<"count">> :> Str("3"))
        @@ (<<"count", "@odata.type">> :> Str("Edm.Int64"))
        @@ (<<"active">> :> Str("true"))
        @@ (<<"active", "@odata.type">> :> Str("Edm.Boolean"))
        @@ (<<"name">> :> Str("x"))

(* C5: the end-to-end scenario decodes to exactly the five expected        *)
(* entries.                                                                *)
C5_Scenario ==
    (Returned /\ raw = ScenarioEntity) => result = ScenarioOutput

C5_Witness == Returned /\ raw = ScenarioEntity /\ pass = 1

(* C6: PartitionKey, RowKey and Timestamp are never keys of the output,    *)
(* at the return and at every step before it.                              *)
C6_NoReservedKey ==
    \A k \in DOMAIN result :
        k # <<"PartitionKey">> /\ k # <<"RowKey">> /\ k # <<"Timestamp">>

C6_Witness ==
    /\ Returned
    /\ pass = 1
    /\ {<<"PartitionKey">>, <<"RowKey">>, <<"Timestamp">>} \subseteq DOMAIN raw
    /\ DOMAIN result # {}

\* the key k without its last token
Base(k) == SubSeq(k, 1, Len(k) - 1)

(* C7: no output key begins with "odata.", and an output key ending in     *)
(* "@odata.type" is the companion of a user property that is in the output;*)
(* an input annotation whose base is not in the output is not copied.      *)
C7_NoMetadataKey ==
    Returned =>
        /\ \A k \in DOMAIN result :
            /\ ~HasPrefix(k, "odata.")
            /\ HasSuffix(k, "@odata.type") =>
                (Base(k) \in DOMAIN result /\ UserProperty(raw, Base(k)))
        /\ \A k \in DOMAIN raw :
            (HasSuffix(k, "@odata.type") /\ Base(k) \notin DOMAIN result)
            => k \notin DOMAIN result

C7_Witness ==
    /\ Returned
    /\ pass = 1
    /\ \E k \in DOMAIN raw : HasPrefix(k, "odata.")
    /\ \E k \in DOMAIN raw :
        HasSuffix(k, "@odata.type") /\ Base(k) \notin DOMAIN raw
    /\ DOMAIN result # {}

(* C8: a property whose annotation names an unsupported type is left out   *)
(* with its annotation, and the output is the one the input without that   *)
(* property and annotation decodes to.                                     *)
C8_UnsupportedSkipped ==
    Returned =>
        \A k \in DOMAIN raw :
            UnsupportedAnnotation(raw, k) =>
                /\ k \notin DOMAIN result
                /\ AnnotationKey(k) \notin DOMAIN result
                /\ result =
                     flattenEntity(MapDelete(MapDelete(raw, k),
                                             AnnotationKey(k)))

C8_Witness ==
    /\ Returned
    /\ \E k \in DOMAIN raw : UnsupportedAnnotation(raw, k)
    /\ DOMAIN result # {}

(* C9: every call returns; a property without annotation whose value is    *)
(* neither boolean, float nor string is left out with no annotation, and   *)
(* the output is the one the input without it decodes to; the empty map    *)
(* decodes to the empty map.                                               *)
C9_NeverFails ==
    /\ [](Returned =>
            /\ raw = EmptyMap => result = EmptyMap
            /\ \A k \in DOMAIN raw :
                UnrecognisedKind(raw, k) =>
                    /\ k \notin DOMAIN result
                    /\ AnnotationKey(k) \notin DOMAIN result
                    /\ result = flattenEntity(MapDelete(raw, k)))
    /\ ((pc = "call") ~> Returned)

C9_Witness ==
    /\ Returned
    /\ \E k \in DOMAIN raw : UnrecognisedKind(raw, k)
    /\ DOMAIN result # {}

(* C10: a boolean property, annotated Edm.Boolean or not annotated, is     *)
(* emitted as "true" or "false" with the annotation Edm.Boolean.           *)
C10_Boolean ==
    Returned =>
        \A k \in DOMAIN raw :
            (/\ UserProperty(raw, k)
             /\ raw[k].kind = "bool"
             /\ (Annotated(raw, k) => AnnotatedAs(raw, k, "Edm.Boolean")))
            => /\ k \in DOMAIN result
               /\ result[k] = Str(IF raw[k].b THEN "true" ELSE "false")
               /\ AnnotationKey(k) \in DOMAIN result
               /\ result[AnnotationKey(k)] = Str("Edm.Boolean")

C10_Witness ==
    /\ Returned
    /\ \E k \in DOMAIN raw :
        /\ UserProperty(raw, k) /\ raw[k] = Bool(TRUE)
        /\ AnnotatedAs(raw, k, "Edm.Boolean")
    /\ \E k \in DOMAIN raw :
        /\ UserProperty(raw, k) /\ raw[k] = Bool(FALSE)
        /\ ~Annotated(raw, k)

\* the plain decimal integer text of the whole floats the model draws
IntegerText(f) ==
    CASE f = Float(FALSE, 3, 0) -> "3"
      [] f = Float(FALSE, 1000000, 0) -> "1000000"

WholeFloats == {Float(FALSE, 3, 0), Float(FALSE, 1000000, 0)}

\* the strings of decimal digits the model meets
DigitStrings == {"3", "1000000", "9007199254740993"}

(* C11: a float property without annotation is emitted as the plain        *)
(* integer text with Edm.Int32 when it is a whole number (3.0 -> "3"), and *)
(* as its natural decimal text with Edm.Double otherwise.                  *)
C11_InferredNumber ==
    Returned =>
        \A k \in DOMAIN raw :
            (/\ UserProperty(raw, k)
             /\ ~Annotated(raw, k)
             /\ raw[k].kind = "float64")
            => /\ k \in DOMAIN result
               /\ AnnotationKey(k) \in DOMAIN result
               /\ IF raw[k] \in WholeFloats
                  THEN /\ result[k] = Str(IntegerText(raw[k]))
                       /\ result[AnnotationKey(k)] = Str("Edm.Int32")
                  ELSE /\ result[k] = Str(NaturalText(raw[k]))
                       /\ result[AnnotationKey(k)] = Str("Edm.Double")

C11_Witness ==
    /\ Returned
    /\ \E k \in DOMAIN raw :
        /\ UserProperty(raw, k) /\ ~Annotated(raw, k)
        /\ raw[k] = Float(FALSE, 1000000, 0)
    /\ \E k \in DOMAIN raw :
        /\ UserProperty(raw, k) /\ ~Annotated(raw, k)
        /\ raw[k] = Float(FALSE, 123, 123)

(* C12: a property annotated Edm.Int32 or Edm.Int64 whose value is a whole *)
(* float or a string of digits is emitted as the plain decimal integer     *)
(* text, with no fractional part and no exponent.                          *)
C12_IntegerText ==
    Returned =>
        \A k \in DOMAIN raw :
            (/\ UserProperty(raw, k)
             /\ (AnnotatedAs(raw, k, "Edm.Int32")
                    \/ AnnotatedAs(raw, k, "Edm.Int64")))
            => /\ raw[k] \in WholeFloats =>
                    (k \in DOMAIN result
                        /\ result[k] = Str(IntegerText(raw[k])))
               /\ (raw[k].kind = "string" /\ raw[k].s \in DigitStrings) =>
                    (k \in DOMAIN result /\ result[k] = raw[k])

(* C13: a string property is emitted unchanged, annotated Edm.String or    *)
(* not annotated; without annotation in the input there is none in the     *)
(* output.                                                                 *)
C13_StringUnchanged ==
    Returned =>
        \A k \in DOMAIN raw :
            (/\ UserProperty(raw, k)
             /\ raw[k].kind = "string"
             /\ (Annotated(raw, k) => AnnotatedAs(raw, k, "Edm.String")))
            => /\ k \in DOMAIN result
               /\ result[k] = raw[k]
               /\ ~Annotated(raw, k) => AnnotationKey(k) \notin DOMAIN result

C13_Witness ==
    /\ Returned
    /\ pass = 1
    /\ \E k \in DOMAIN raw :
        /\ UserProperty(raw, k) /\ raw[k].kind = "string"
        /\ AnnotatedAs(raw, k, "Edm.String")
    /\ \E k \in DOMAIN raw :
        /\ UserProperty(raw, k) /\ raw[k].kind = "string"
        /\ ~Annotated(raw, k)

(* C14: a property annotated with one of the five supported types is in    *)
(* the output with its annotation, and the annotation keeps the input's    *)
(* value.                                                                  *)
C14_AnnotationKept ==
    Returned =>
        \A k \in DOMAIN raw :
            (/\ UserProperty(raw, k)
             /\ \E n \in SupportedNames : AnnotatedAs(raw, k, n))
            => /\ k \in DOMAIN result
               /\ AnnotationKey(k) \in DOMAIN result
               /\ result[AnnotationKey(k)] = raw[AnnotationKey(k)]

C14_Witness ==
    /\ Returned
    /\ pass = 1
    /\ \E k \in DOMAIN raw : 
        /\ UserProperty(raw, k) /\ AnnotatedAs(raw, k, "Edm.Int64")
        /\ raw[k] = Float(FALSE, 3, 0)

---------------------------------------------------------------------------
(* Order of the range over the map (checked under Spec, where the keys     *)
(* are visited in every order).                                            *)

\* the output keys the iteration for input key k writes
WrittenBy(e, k) == DOMAIN FlattenKey(e, EmptyMap, k)

\* C22: whatever order the keys were visited in, the output is the one the
\* fixed order of flattenEntity(raw) gives, and no two input keys write the
\* same output key.
C22_OrderIndependent ==
    /\ Returned => result = flattenEntity(raw)
    /\ pc \in {"range", "done"} =>
          \A k1 \in DOMAIN entity, k2 \in DOMAIN entity :
              k1 # k2 => WrittenBy(entity, k1) \cap WrittenBy(entity, k2) = {}

\* a map with two properties that both write, one of them annotated
C22_Witness ==
    /\ Returned
    /\ pass = 1
    /\ {<<"a">>, <<"b">>, AnnotationKey(<<"a">>), AnnotationKey(<<"b">>)}
          \subseteq DOMAIN result
    /\ AnnotationKey(<<"a">>) \in DOMAIN raw
    /\ AnnotationKey(<<"b">>) \notin DOMAIN raw

---------------------------------------------------------------------------
(* The range of the inferred Edm.Int32 (checked under NumberSpec). *)

\* the integer texts of the numbers drawn that denote a signed 32-bit value
Int32Texts == {"0", "3", "1000000", "2147483647", "-2147483648"}

\* C23: whenever flattenEntity infers Edm.Int32 for a number without
\* annotation, the text it emits denotes a value in
\* [-2147483648, 2147483647].
C23_Int32Range ==
    (Returned /\ pass = 1) =>
        \A k \in DOMAIN raw :
            (/\ UserProperty(raw, k)
             /\ ~Annotated(raw, k)
             /\ raw[k].kind = "float64"
             /\ AnnotatedAs(result, k, "Edm.Int32"))
            => result[k].s \in Int32Texts

---------------------------------------------------------------------------
(* Properties of the entity handlers (checked under HandlerSpec). *)

\* the invoked handler returned
HandlerReturned == hpc = "done"

\* the positions in `calls` of the calls of name
CallsOf(name) == {i \in DOMAIN calls : calls[i].call = name}

Issued(name) == CallsOf(name) # {}

\* create or update was invoked
Writing == handler \in {"Create", "Update"}

\* d.Id() when the handler was invoked
EntryId == IF handler = "Create" THEN <<>> ELSE ID(DeclaredID(d))

\* where Read was entered (0: it was not)
ReadEntry == IF Issued("Read") THEN CHOOSE i \in CallsOf("Read") : TRUE ELSE 0

\* C15: every InsertOrMerge of create/update submits exactly the declared
\* entity map, with the declared partition_key and row_key, and flattenEntity
\* was not applied before the write.
C15_WritePayload ==
    \A i \in CallsOf("InsertOrMerge") :
        /\ Writing
        /\ calls[i].input.Entity = d.Get.entity
        /\ calls[i].input.PartitionKey = d.Get.partition_key
        /\ calls[i].input.RowKey = d.Get.row_key
        /\ DOMAIN calls[i].input = {"PartitionKey", "RowKey", "Entity"}
        /\ \A j \in 1..i : calls[j].call # "flattenEntity"

\* an update wrote a declared map that flattenEntity would have changed
C15_Witness ==
    /\ handler = "Update"
    /\ \E i \in CallsOf("InsertOrMerge") : calls[i].ok
    /\ flattenEntity(d.Get.entity) # d.Get.entity
    /\ Timestamp \in DOMAIN d.Get.entity

\* a call of Read failed: the account lookup, the building of the client,
\* or the Get (a not-found response included)
ReadFailure ==
    /\ Issued("Read")
    /\ \E i \in DOMAIN calls :
        /\ i > ReadEntry
        /\ \/ calls[i].call = "FindAccount" /\ calls[i].err # NoError
           \/ calls[i].call = "TableEntityDataPlaneClient" /\ calls[i].err # NoError
           \/ calls[i].call = "Get" /\ calls[i].outcome # "found"

\* C16: when in Read the account lookup, the client construction or the Get
\* fails (entity not found included), Read returns an error, the resource ID
\* is as it was when Read was entered, no state field is written and
\* flattenEntity is not invoked.
C16_ReadAborts ==
    ReadFailure =>
        /\ HandlerReturned
        /\ err # NoError
        /\ d.Id = calls[ReadEntry].Id
        /\ \A i \in CallsOf("SetId") : i < ReadEntry
        /\ DOMAIN d.Set = {}
        /\ ~Issued("flattenEntity")

\* a Read invoked by the framework got a not-found response
C16_Witness ==
    /\ handler = "Read"
    /\ HandlerReturned
    /\ \E i \in CallsOf("Get") : calls[i].outcome = "notfound"
    /\ err # NoError

\* the Get, InsertOrMerge and Delete calls: the data-plane calls
DataPlaneCalls == CallsOf("Get") \cup CallsOf("InsertOrMerge") \cup CallsOf("Delete")

\* the existence check of the declared (partition_key, row_key)
IsExistenceCheck(c) ==
    /\ c.call = "Get"
    /\ c.input.PartitionKey = d.Get.partition_key
    /\ c.input.RowKey = d.Get.row_key

\* C19: a create's first data-plane call is a Get of (partition_key,
\* row_key); unless it reports not-found the create returns an error
\* (import-as-exists when an entity was found, a check error otherwise),
\* InsertOrMerge is never called and the ID is not set; InsertOrMerge on a
\* new resource directly follows a not-found Get.
C19_ExistenceCheck ==
    handler = "Create" =>
        /\ \A i \in DataPlaneCalls :
              (\A j \in DataPlaneCalls : i <= j) => IsExistenceCheck(calls[i])
        /\ \A i \in CallsOf("InsertOrMerge") :
              /\ i > 1
              /\ IsExistenceCheck(calls[i - 1])
              /\ calls[i - 1].outcome = "notfound"
        /\ \A i \in CallsOf("Get") :
              (i < ReadEntry \/ ReadEntry = 0) /\ calls[i].outcome # "notfound" =>
                  /\ HandlerReturned
                  /\ err = IF calls[i].outcome = "found"
                           THEN "ImportAsExistsError"
                           ELSE "checking for existing"
                  /\ ~Issued("InsertOrMerge")
                  /\ ~Issued("SetId")
                  /\ d.Id = <<>>

\* a create found the entity and returned the import-as-exists error
C19_Witness ==
    /\ handler = "Create"
    /\ HandlerReturned
    /\ \E i \in CallsOf("Get") : calls[i].outcome = "found"
    /\ err = "ImportAsExistsError"

\* a step of create/update failed: the account lookup (an error, or no
\* account for a new resource), the building of the client, the existence
\* check or InsertOrMerge
WriteFailure ==
    /\ Writing
    /\ \E i \in DOMAIN calls :
        /\ i < ReadEntry \/ ReadEntry = 0
        /\ \/ calls[i].call = "FindAccount" /\ calls[i].err # NoError
           \/ calls[i].call = "FindAccount" /\ ~calls[i].found /\ d.IsNewResource
           \/ calls[i].call = "TableEntityDataPlaneClient" /\ calls[i].err # NoError
           \/ calls[i].call = "Get" /\ calls[i].outcome # "notfound"
           \/ calls[i].call = "InsertOrMerge" /\ ~calls[i].ok

\* C20: in create/update the ID is set (to the entity's ID) only directly
\* after a successful InsertOrMerge, Read is entered only directly after
\* that, with the ID set; on every path where the account lookup, the client
\* construction, the existence check or InsertOrMerge fails, the handler
\* returns an error, no ID is set and Read is not invoked.
C20_IdAfterWrite ==
    Writing =>
        /\ \A i \in CallsOf("SetId") :
              calls[i].Id # <<>> =>
                  /\ i > 1
                  /\ calls[i - 1].call = "InsertOrMerge"
                  /\ calls[i - 1].ok
                  /\ calls[i].Id = ID(DeclaredID(d))
        /\ \A i \in CallsOf("Read") :
              /\ i > 1
              /\ calls[i - 1].call = "SetId"
              /\ calls[i - 1].Id # <<>>
              /\ calls[i].Id = calls[i - 1].Id
        /\ (d.Id # EntryId /\ d.Id # <<>>) =>
              \E i \in CallsOf("InsertOrMerge") : calls[i].ok
        /\ WriteFailure =>
              /\ HandlerReturned
              /\ err # NoError
              /\ ~Issued("SetId")
              /\ d.Id = EntryId
              /\ ~Issued("Read")

\* a create whose InsertOrMerge failed after a not-found existence check
C20_Witness ==
    /\ handler = "Create"
    /\ HandlerReturned
    /\ \E i \in CallsOf("InsertOrMerge") : ~calls[i].ok
    /\ d.Id = <<>>
    /\ err # NoError

\* the positions of the account lookups that found no account and no error
NotLocated ==
    {i \in CallsOf("FindAccount") : calls[i].err = NoError /\ ~calls[i].found}

\* C21: when the account lookup returns no account and no error, the handler
\* that looked it up issues no data-plane call (Get, InsertOrMerge, Delete)
\* and returns: Read clears the ID and returns success, a create returns an
\* error, an update clears the ID and returns success, Delete returns an
\* error and leaves the ID unchanged.
C21_AccountNotLocated ==
    \A i \in NotLocated :
        /\ HandlerReturned
        /\ \A j \in DataPlaneCalls : j < i /\ j < ReadEntry
        /\ IF ReadEntry # 0 /\ i > ReadEntry
           THEN d.Id = <<>> /\ err = NoError /\ calls[Len(calls)] = SetIdCall(<<>>)
           ELSE CASE handler = "Create" ->
                       err # NoError /\ d.Id = EntryId /\ ~Issued("SetId")
                  [] handler = "Update" ->
                       d.Id = <<>> /\ err = NoError /\ calls[Len(calls)] = SetIdCall(<<>>)
                  [] handler = "Delete" ->
                       err # NoError /\ d.Id = EntryId /\ ~Issued("SetId")

\* a Delete found no account: it returned an error and kept the ID
C21_Witness ==
    /\ HandlerReturned
    /\ NotLocated # {}
    /\ handler = "Delete"
    /\ DataPlaneCalls = {}
    /\ d.Id = ID(DeclaredID(d))

---------------------------------------------------------------------------
(* Properties of the client constructors (checked under ClientSpec). *)

\* the constructor returned
ClientReturned == cpc = "done"

\* ConfigureDataPlane was called and returned
Configured == ClientReturned /\ baseUri # NilPtr /\ ret.err # "building client"

\* the operation has the two flags of op
SameSupport(op) ==
    /\ operation.SupportsAadAuthentication = op.SupportsAadAuthentication
    /\ operation.SupportsSharedKeyAuthentication = op.SupportsSharedKeyAuthentication

AadConfigured == storageClient.authorizerForAad # NilPtr

\* SetAuthorizer was called with a shared-key authorizer
SharedKeySet == authorizer # NilPtr /\ authorizer.v.auth = "SharedKey"

\* SetAuthorizer was called with the AAD authorizer
AadSet == authorizer # NilPtr /\ authorizer = storageClient.authorizerForAad

\* C17 as stated: AAD when the operation supports it and it is configured
\* (the account key is then never retrieved); otherwise, when the operation
\* supports shared key, the key is retrieved and a shared-key authorizer is
\* set; otherwise an error and no authorizer.  An operation supporting only
\* shared key never gets the AAD authorizer.
C17_Precedence ==
    Configured =>
        /\ IF operation.SupportsAadAuthentication /\ AadConfigured
           THEN AadSet /\ keyCalls = 0
           ELSE IF operation.SupportsSharedKeyAuthentication
           THEN keyCalls = 1 /\ SharedKeySet
           ELSE ret.err # NoError /\ authorizer = NilPtr
        /\ SameSupport(DataPlaneOperationSupportingOnlySharedKeyAuth) => ~AadSet

\* C17 amended: as C17, but in the shared-key case the shared-key authorizer
\* is set only when retrieving the key and building the authorizer both
\* succeed; when either fails an error is returned and no authorizer is set.
C17_PrecedenceAmended ==
    Configured =>
        /\ IF operation.SupportsAadAuthentication /\ AadConfigured
           THEN AadSet /\ keyCalls = 0 /\ ret.err = NoError
           ELSE IF operation.SupportsSharedKeyAuthentication
           THEN /\ keyCalls = 1
                /\ ret.err = NoError => SharedKeySet
                /\ ret.err # NoError => authorizer = NilPtr
           ELSE ret.err # NoError /\ authorizer = NilPtr /\ keyCalls = 0
        /\ SameSupport(DataPlaneOperationSupportingOnlySharedKeyAuth) => ~AadSet

\* an operation supporting only shared key was configured with a shared-key
\* authorizer although an AAD authorizer was there
C17_Witness ==
    /\ Configured
    /\ SameSupport(DataPlaneOperationSupportingOnlySharedKeyAuth)
    /\ AadConfigured
    /\ SharedKeySet
    /\ keyCalls = 1

\* the service each constructor is a client of
ServiceOf(c) ==
    CASE c \in {"Accounts", "Blobs", "Containers"} -> "blob"
      [] c \in {"FileShareDirectories", "FileShareFiles", "FileShares"} -> "file"
      [] c = "Queues" -> "queue"
      [] c \in {"TableEntity", "Tables"} -> "table"

\* the account's primary endpoint of service s, when it has one
EndpointOfService(s) ==
    LET e == account.Properties.v.PrimaryEndpoints.v
    IN  CASE s = "blob" -> e.Blob
          [] s = "file" -> e.File
          [] s = "queue" -> e.Queue
          [] s = "table" -> e.Table

\* the account has no usable endpoint for service s
NoEndpoint(s) ==
    \/ account.Properties = NilPtr
    \/ account.Properties.v.PrimaryEndpoints = NilPtr
    \/ EndpointOfService(s) = NilPtr
    \/ EndpointOfService(s).v = <<>>

\* C18: a constructor that returns a client built it on the endpoint of its
\* own service; when the account has no properties, no primary endpoints or
\* a nil or empty endpoint of that service, the constructor returns an error
\* and no client, sets no authorizer and does not retrieve the account key.
C18_OwnEndpoint ==
    ClientReturned =>
        /\ ret.err = NoError =>
              /\ ret.client # NilPtr
              /\ ~NoEndpoint(ServiceOf(ctor))
              /\ ret.client.v.BaseUri = <<EndpointUrl(ServiceOf(ctor))>>
        /\ NoEndpoint(ServiceOf(ctor)) =>
              /\ ret.err # NoError
              /\ ret.client = NilPtr
              /\ authorizer = NilPtr
              /\ keyCalls = 0

\* the table-entity constructor returned a client for an account with a
\* table endpoint, and returned an error for one without
C18_Witness ==
    /\ ClientReturned
    /\ ctor = "TableEntity"
    /\ account.Properties # NilPtr
    /\ account.Properties.v.PrimaryEndpoints # NilPtr
    /\ EndpointOfService("table") = NilPtr
    /\ EndpointOfService("blob") # NilPtr
    /\ EndpointOfService("blob").v # <<>>
    /\ ret.err # NoError

---------------------------------------------------------------------------
(* The ACL conversions (checked under AclSpec). *)

\* C24: for every acl set the schema accepts, expandStorageTableACLs does
\* not fail and yields one SignedIdentifier per element, with Id, Start,
\* Expiry and Permission taken from it, and flattenStorageTableACLs of the
\* expanded identifiers reproduces the set.
C24_AclRoundTrip ==
    /\ apc # "panic"
    /\ apc \in {"expanded", "done"} =>
          /\ Len(acls) = Len(aclsRaw)
          /\ \A i \in DOMAIN acls :
                /\ acls[i].Id = aclsRaw[i].id
                /\ Len(aclsRaw[i].access_policy) = 1
                /\ acls[i].AccessPolicy.Start = aclsRaw[i].access_policy[1].start
                /\ acls[i].AccessPolicy.Expiry = aclsRaw[i].access_policy[1].expiry
                /\ acls[i].AccessPolicy.Permission
                      = aclsRaw[i].access_policy[1].permissions
    /\ apc = "done" => aclAttr = aclsRaw

===========================================================================
